---- MODULE Spec2Model ----
(***************************************************************************)
(* fleet-rest-skeleton: the "server" command (cmd/server), the App         *)
(* (internal/app) and the gin routes (pkg/api/routes).                     *)
(*                                                                         *)
(* The process is three kinds of thread: the main goroutine running        *)
(* serverCmd.Run, the listener goroutine running srv.ListenAndServe, and   *)
(* one goroutine per accepted request running the gin handler chain.       *)
(* Time is counted in ticks of 5 seconds from the creation of the          *)
(* shutdown context.                                                       *)
(***************************************************************************)
EXTENDS Integers, Sequences, FiniteSets, TLC

\* ------------------------------------------------------------------ bounds
\* requests the listener accepts in one run
MaxRequests == 2
\* requests in flight at the same time
MaxInFlight == 2
\* SIGINT/SIGTERM deliveries in one run
MaxSignals == 2
\* ticks the clock is followed after the shutdown context is created
MaxClock == 3

\* ------------------------------------------------------- program constants
\* var shutdownTimeout = 10 * time.Second, in ticks of 5 s
shutdownTimeout == 2

StatusOK == 200
StatusBadRequest == 400
StatusUnauthorized == 401
StatusNotFound == 404
StatusInternalServerError == 500

\* -------------------------------------------------------------- JSON text
\* A JSON text is a record [kind, pairs]: kind says what the bytes are,
\* pairs is the member list of an object text in the order written
\* (duplicates allowed, as in the bytes on the wire).
KeyOrder == <<"a", "b", "error", "message", "time">>

Pair(k, v) == <<k, v>>

ObjText(ps) == [kind |-> "object", pairs |-> ps]
OtherText(k) == [kind |-> k, pairs |-> <<>>]

\* A decoded value: map[string]any, possibly the nil map.
\* kv is a function from the keys present to their values.
EmptyKV == [k \in {} |-> ""]
MakeMap == [isNil |-> FALSE, kv |-> EmptyKV]
NilMap == [isNil |-> TRUE, kv |-> EmptyKV]
MapOf(f) == [isNil |-> FALSE, kv |-> f]

\* m[k] = v on a Go map (allocating is not modelled: only non-nil maps are
\* assigned to)
MapSet(f, k, v) == [x \in (DOMAIN f) \cup {k} |-> IF x = k THEN v ELSE f[x]]

RECURSIVE FoldPairs(_, _)
FoldPairs(ps, f) ==
    IF ps = <<>> THEN f
    ELSE FoldPairs(Tail(ps), MapSet(f, Head(ps)[1], Head(ps)[2]))

\* A member value in a text is its token.  A number token is decoded with
\* strconv.ParseFloat(s, 64) and written back in the shortest form that
\* gives the same float64: "1.0" comes back as "1", 2^53+1 as 2^53.
Float64(tok) ==
    CASE tok = "1.0"              -> "1"
      [] tok = "9007199254740993" -> "9007199254740992"
      [] OTHER                    -> tok

\* ParseFloat fails with a range error on a number beyond float64
OutOfRange(tok) == tok = "1e999"

HasOutOfRange(ps) == \E i \in 1..Len(ps) : OutOfRange(ps[i][2])

\* the members of an object text stored into a map in order, the last
\* duplicate winning; a number out of range is stored as nil (null)
RECURSIVE DecodePairs(_, _)
DecodePairs(ps, f) ==
    IF ps = <<>> THEN f
    ELSE DecodePairs(Tail(ps),
                     MapSet(f, Head(ps)[1],
                            IF OutOfRange(Head(ps)[2]) THEN "null" ELSE Float64(Head(ps)[2])))

\* encoding/json Decoder.Decode into *map[string]any, as gin's binding.JSON
\* calls it: the whole value is scanned first, so a syntax error or a value
\* that is not an object leaves the map untouched; null sets the map to
\* nil; an object stores its members, and a number out of range is
\* reported once the object has been stored.
DecodeJSON(text, m) ==
    CASE text.kind = "object"    ->
             [err |-> IF HasOutOfRange(text.pairs)
                      THEN "json: cannot unmarshal number 1e999 into Go value of type float64"
                      ELSE "nil",
              m   |-> MapOf(DecodePairs(text.pairs, m.kv))]
      [] text.kind = "null"      -> [err |-> "nil", m |-> NilMap]
      [] text.kind = "array"     -> [err |-> "json: cannot unmarshal array into Go value of type map[string]interface {}", m |-> m]
      [] text.kind = "scalar"    -> [err |-> "json: cannot unmarshal string into Go value of type map[string]interface {}", m |-> m]
      [] text.kind = "truncated" -> [err |-> "unexpected EOF", m |-> m]
      [] text.kind = "garbage"   -> [err |-> "invalid character 'i' looking for beginning of value", m |-> m]
      [] OTHER                   -> [err |-> "EOF", m |-> m]

\* encoding/json Marshal of a map[string]any: null for the nil map, else the
\* members sorted by key.
RECURSIVE SortedPairs(_, _)
SortedPairs(f, keys) ==
    IF keys = <<>> THEN <<>>
    ELSE IF Head(keys) \in DOMAIN f
         THEN <<Pair(Head(keys), f[Head(keys)])>> \o SortedPairs(f, Tail(keys))
         ELSE SortedPairs(f, Tail(keys))

EncodeJSON(m) ==
    IF m.isNil THEN OtherText("null") ELSE ObjText(SortedPairs(m.kv, KeyOrder))

\* ----------------------------------------------------------- gin.Context
\* The part of a gin.Context the handlers use.  status is what
\* c.Writer.Status() returns, written says the header has gone out, sent is
\* the status line the client received (0: none yet), body is the list of
\* JSON texts written to the connection, errors is c.Errors.
NewContext ==
    [status |-> StatusOK, written |-> FALSE, sent |-> 0, body |-> <<>>,
     errors |-> <<>>, aborted |-> FALSE]

\* WriteHeader as gin had it before 1.9: the status is replaced even when
\* the header has gone out
WriteHeaderOverwrites(c, code) ==
    IF code > 0 /\ c.status # code THEN [c EXCEPT !.status = code] ELSE c

\* responseWriter.WriteHeader: a status set after the header went out is
\* dropped with a warning
WriteHeader(c, code) ==
    IF code > 0 /\ c.status # code /\ ~c.written THEN [c EXCEPT !.status = code] ELSE c

WriteHeaderNow(c) ==
    IF c.written THEN c ELSE [c EXCEPT !.written = TRUE, !.sent = c.status]

\* responseWriter.Write: sends the header if it has not gone out, then the bytes
WriteBody(c, text) ==
    [WriteHeaderNow(c) EXCEPT !.body = Append(@, text)]

\* ctx.JSON(code, obj)
CtxJSON(c, code, obj) == WriteBody(WriteHeader(c, code), EncodeJSON(obj))

\* c.AbortWithError(code, err): status, header out, abort, err onto c.Errors
AbortWithError(c, code, err) ==
    [WriteHeaderNow(WriteHeader(c, code)) EXCEPT !.aborted = TRUE, !.errors = Append(@, err)]

\* ctx.BindJSON(&m): decode the body into m; on failure abort with 400
BindJSON(c, reqBody, m) ==
    LET d == DecodeJSON(reqBody, m)
    IN  [err |-> d.err, m |-> d.m,
         ctx |-> IF d.err # "nil" THEN AbortWithError(c, StatusBadRequest, d.err) ELSE c]

\* map[string]any{"error": err.Error()}
ErrorObject(err) == MapOf(MapSet(EmptyKV, "error", err))

\* ------------------------------------------------------------ API handlers
\* apiEcho without its copying loop: the new map is returned empty
apiEchoNoCopy(m) == [obj |-> MakeMap, err |-> "nil"]

\* func apiEcho(m): a new map with m's members, and no error
apiEcho(m) ==
    [obj |-> MapOf(FoldPairs(SortedPairs(m.kv, KeyOrder), EmptyKV)), err |-> "nil"]

\* apiError looking at its input: it fails only when given members
apiErrorOnMembers(m) ==
    IF m.kv = EmptyKV THEN [obj |-> MakeMap, err |-> "nil"]
    ELSE [obj |-> NilMap, err |-> "bad times"]

\* func apiError(_): no result and the error "bad times"
apiError(m) == [obj |-> NilMap, err |-> "bad times"]

ApiHandlers == {"apiEcho", "apiError"}

\* a handler a test passes to wrapAPICall: it fails and still returns a
\* result that is not empty
stubPartial(m) == [obj |-> MapOf(MapSet(m.kv, "a", "7")), err |-> "stub failure"]

\* fn(m) for the apiHandler named fn
CallHandler(fn, m) ==
    CASE fn = "apiEcho"  -> apiEcho(m)
      [] fn = "apiError" -> apiError(m)
      [] OTHER           -> stubPartial(m)

\* wrapAPICall with the test of the handler's error inverted
wrapAPICallInverted(fn, c, reqBody) ==
    LET b    == BindJSON(c, reqBody, MakeMap)
        c1   == IF b.err # "nil"
                THEN CtxJSON(b.ctx, StatusBadRequest, ErrorObject(b.err))
                ELSE b.ctx
        r    == CallHandler(fn, b.m)
        code == IF r.err # "nil" THEN StatusOK ELSE StatusInternalServerError
        obj  == IF r.err # "nil" THEN r.obj ELSE ErrorObject(r.err)
    IN  [ctx |-> CtxJSON(c1, code, obj), calls |-> <<[fn |-> fn, arg |-> b.m]>>]

\* wrapAPICall adding the error to the handler's result instead of
\* replacing the result
wrapAPICallKeepsResult(fn, c, reqBody) ==
    LET b    == BindJSON(c, reqBody, MakeMap)
        c1   == IF b.err # "nil"
                THEN CtxJSON(b.ctx, StatusBadRequest, ErrorObject(b.err))
                ELSE b.ctx
        r    == CallHandler(fn, b.m)
        code == IF r.err = "nil" THEN StatusOK ELSE StatusInternalServerError
        obj  == IF r.err = "nil" THEN r.obj ELSE MapOf(MapSet(r.obj.kv, "error", r.err))
    IN  [ctx |-> CtxJSON(c1, code, obj), calls |-> <<[fn |-> fn, arg |-> b.m]>>]

\* wrapAPICall(fn) applied to a context and a request body.  calls is the
\* list of arguments fn was invoked with.
wrapAPICall(fn, c, reqBody) ==
    LET b    == BindJSON(c, reqBody, MakeMap)
        c1   == IF b.err # "nil"
                THEN CtxJSON(b.ctx, StatusBadRequest, ErrorObject(b.err))
                ELSE b.ctx
        r    == CallHandler(fn, b.m)
        code == IF r.err = "nil" THEN StatusOK ELSE StatusInternalServerError
        obj  == IF r.err = "nil" THEN r.obj ELSE ErrorObject(r.err)
    IN  [ctx |-> CtxJSON(c1, code, obj), calls |-> <<[fn |-> fn, arg |-> b.m]>>]

\* ----------------------------------------------------------------- routes
\* A request: method, URL path, raw query, body text and whether its bearer token
\* passes the configured JWT check.
ObjectBodies ==
    { ObjText(<<>>),
      ObjText(<<Pair("a", "1")>>),
      ObjText(<<Pair("b", "2"), Pair("a", "1"), Pair("a", "3")>>),
      ObjText(<<Pair("a", "1.0"), Pair("b", "9007199254740993")>>) }

\* an object whose number no float64 holds: valid JSON that fails to decode
RangeBodies == { ObjText(<<Pair("a", "1e999")>>) }

BadBodies ==
    { OtherText("array"), OtherText("truncated") } \cup RangeBodies

Bodies == ObjectBodies \cup BadBodies \cup {OtherText("null")}

Requests ==
    [method : {"POST"}, path : {"/api/echo", "/api/error"}, query : {""}, body : Bodies,
     tokenOK : {TRUE}]
    \cup
    [method : {"POST"}, path : {"/api/echo"}, query : {""}, body : {ObjText(<<Pair("a", "1")>>)},
     tokenOK : {FALSE}]
    \cup
    [method : {"GET"}, path : {"/_health/liveness", "/api/version", "/api/echo"}, query : {""},
     body : {OtherText("empty")}, tokenOK : {TRUE}]
    \cup
    [method : {"GET"}, path : {"/nope"}, query : {"x=1"}, body : {OtherText("empty")},
     tokenOK : {TRUE}]
    \cup
    [method : {"GET"}, path : {"/_health/liveness"}, query : {""}, body : {OtherText("empty")},
     tokenOK : {FALSE}]
    \cup
    [method : {"POST"}, path : {"/api/echo/"}, query : {""}, body : {ObjText(<<Pair("a", "1")>>)},
     tokenOK : {TRUE}]

\* the route table of ComposeHTTPServer: the handler registered for a
\* method and path, "NoRoute" when there is none
Route(method, path) ==
    CASE method = "GET"  /\ path = "/_health/liveness" -> "liveness"
      [] method = "GET"  /\ path = "/api/version"      -> "version"
      [] method = "POST" /\ path = "/api/echo"         -> "apiEcho"
      [] method = "POST" /\ path = "/api/error"        -> "apiError"
      [] OTHER                                         -> "NoRoute"

\* composeAuthHandler(scopes): ginNoOp when authMiddleWare is nil, else
\* AuthRequired, which aborts the request with 401 when the token fails
composeAuthHandler(authMiddleWare, c, tokenOK) ==
    IF authMiddleWare = "nil" \/ tokenOK THEN c
    ELSE [CtxJSON(c, StatusUnauthorized,
                  MapOf(MapSet(EmptyKV, "message", "invalid auth token")))
            EXCEPT !.aborted = TRUE]

\* the handler chains without g.NoRoute: gin's own 404 answers an unmatched
\* request with the plain text "404 page not found"
RouteChainDefaultNoRoute(authMiddleWare, req) ==
    LET route == Route(req.method, req.path)
        c0    == NewContext
    IN  CASE route = "NoRoute" ->
               [ctx   |-> WriteBody(WriteHeader(c0, StatusNotFound), OtherText("404 page not found")),
                calls |-> <<>>]
          [] route = "liveness" ->
               [ctx   |-> CtxJSON(c0, StatusOK, MapOf(MapSet(EmptyKV, "time", "now"))),
                calls |-> <<>>]
          [] route = "version" ->
               [ctx   |-> WriteBody(WriteHeader(c0, StatusOK),
                                    ObjText(<<Pair("git_commit", ""), Pair("git_branch", ""),
                                              Pair("git_summary", ""), Pair("build_date", ""),
                                              Pair("app_version", ""), Pair("go_version", "go")>>)),
                calls |-> <<>>]
          [] OTHER ->
               LET c1 == composeAuthHandler(authMiddleWare, c0, req.tokenOK)
               IN  IF c1.aborted THEN [ctx |-> c1, calls |-> <<>>]
                   ELSE wrapAPICall(route, c1, req.body)

\* the handler chains with the auth handler on the liveness route as well
RouteChainAuthOnLiveness(authMiddleWare, req) ==
    LET route == Route(req.method, req.path)
        c0    == NewContext
    IN  CASE route = "NoRoute" ->
               [ctx   |-> CtxJSON(c0, StatusNotFound,
                                  MapOf(MapSet(EmptyKV, "message", "invalid request - route not found"))),
                calls |-> <<>>]
          [] route = "liveness" ->
               LET c1 == composeAuthHandler(authMiddleWare, c0, req.tokenOK)
               IN  [ctx   |-> IF c1.aborted THEN c1
                              ELSE CtxJSON(c1, StatusOK, MapOf(MapSet(EmptyKV, "time", "now"))),
                    calls |-> <<>>]
          [] route = "version" ->
               [ctx   |-> WriteBody(WriteHeader(c0, StatusOK),
                                    ObjText(<<Pair("git_commit", ""), Pair("git_branch", ""),
                                              Pair("git_summary", ""), Pair("build_date", ""),
                                              Pair("app_version", ""), Pair("go_version", "go")>>)),
                calls |-> <<>>]
          [] OTHER ->
               LET c1 == composeAuthHandler(authMiddleWare, c0, req.tokenOK)
               IN  IF c1.aborted THEN [ctx |-> c1, calls |-> <<>>]
                   ELSE wrapAPICall(route, c1, req.body)

\* the handlers of the matched route, run by c.Next() after the logging
\* middleware and gin.Recovery()
RouteChain(authMiddleWare, req) ==
    LET route == Route(req.method, req.path)
        c0    == NewContext
    IN  CASE route = "NoRoute" ->
               [ctx   |-> CtxJSON(c0, StatusNotFound,
                                  MapOf(MapSet(EmptyKV, "message", "invalid request - route not found"))),
                calls |-> <<>>]
          [] route = "liveness" ->
               [ctx   |-> CtxJSON(c0, StatusOK, MapOf(MapSet(EmptyKV, "time", "now"))),
                calls |-> <<>>]
          [] route = "version" ->
               [ctx   |-> WriteBody(WriteHeader(c0, StatusOK),
                                    ObjText(<<Pair("git_commit", ""), Pair("git_branch", ""),
                                              Pair("git_summary", ""), Pair("build_date", ""),
                                              Pair("app_version", ""), Pair("go_version", "go")>>)),
                calls |-> <<>>]
          [] OTHER ->
               LET c1 == composeAuthHandler(authMiddleWare, c0, req.tokenOK)
               IN  IF c1.aborted THEN [ctx |-> c1, calls |-> <<>>]
                   ELSE wrapAPICall(route, c1, req.body)

\* composeAppLogging choosing the severity by the status code
composeAppLoggingByStatus(authMiddleWare, req) ==
    LET start == "now"
        path  == req.path
        query == req.query
        r     == RouteChain(authMiddleWare, req)
        code  == r.ctx.status
    IN  [ctx   |-> r.ctx,
         calls |-> r.calls,
         obs   |-> <<[endpoint |-> path, responseCode |-> code]>>,
         log   |-> <<[level  |-> IF code >= StatusBadRequest THEN "error" ELSE "info",
                      path   |-> path, query |-> query, code |-> code, start |-> start,
                      errors |-> r.ctx.errors]>>]

\* composeAppLogging(l): the whole chain for one request.  obs is the list
\* of calls of metrics.APICallEpilog (endpoint, responseCode), log the list
\* of entries written: severity, path, query, status-code, start (the
\* reading of time.Now() on entry) and, at error severity, c.Errors.
composeAppLogging(authMiddleWare, req) ==
    LET start == "now"
        path  == req.path
        query == req.query
        r     == RouteChain(authMiddleWare, req)
        code  == r.ctx.status
    IN  [ctx   |-> r.ctx,
         calls |-> r.calls,
         obs   |-> <<[endpoint |-> path, responseCode |-> code]>>,
         log   |-> <<[level  |-> IF Len(r.ctx.errors) > 0 THEN "error" ELSE "info",
                      path   |-> path, query |-> query, code |-> code, start |-> start,
                      errors |-> r.ctx.errors]>>]

\* gin.New() leaves RedirectTrailingSlash on: a path that is a registered
\* path of the method with one more "/" at its end is redirected to it
TrailingSlashRedirect(method, path) ==
    \/ method = "POST" /\ path \in {"/api/echo/", "/api/error/"}
    \/ method = "GET"  /\ path \in {"/_health/liveness/", "/api/version/"}

StatusMovedPermanently == 301
StatusTemporaryRedirect == 307

\* http.Redirect for such a path: 301 for GET with a short HTML body, 307
\* for the other methods with none; no handler of the engine runs
redirectTrailingSlash(req) ==
    LET code == IF req.method = "GET" THEN StatusMovedPermanently ELSE StatusTemporaryRedirect
        c    == WriteHeaderNow(WriteHeader(NewContext, code))
    IN  [ctx   |-> IF req.method = "GET" THEN WriteBody(c, OtherText("html")) ELSE c,
         calls |-> <<>>, obs |-> <<>>, log |-> <<>>]

\* Engine.ServeHTTP of the engine built by ComposeHTTPServer
ServeHTTP(authMiddleWare, req) ==
    IF Route(req.method, req.path) = "NoRoute" /\ TrailingSlashRedirect(req.method, req.path)
    THEN redirectTrailingSlash(req)
    ELSE composeAppLogging(authMiddleWare, req)

\* ---------------------------------------------------------------- metrics
\* strconv.Itoa
Itoa(n) == ToString(n)

\* apiLatencySeconds, a HistogramVec: the sample count of each label pair
\* <<endpoint, response_code>> observed so far
NoSamples == [l \in {} |-> 0]

\* Observe as a read and a write that are not one step: the count written
\* is one more than a count read before the child had any sample
ObserveLosing(h, label) ==
    [l \in (DOMAIN h) \cup {label} |-> IF l = label THEN 1 ELSE h[l]]

\* apiLatencySeconds.WithLabelValues(endpoint, code).Observe(elapsed): the
\* child is created when missing and its count goes up by one, atomically
Observe(h, label) ==
    [l \in (DOMAIN h) \cup {label} |->
        (IF l \in DOMAIN h THEN h[l] ELSE 0) + (IF l = label THEN 1 ELSE 0)]

\* metrics.APICallEpilog(start, endpoint, responseCode)
APICallEpilog(h, endpoint, responseCode) == Observe(h, <<endpoint, Itoa(responseCode)>>)

\* the histogram after the calls of APICallEpilog in obs
RECURSIVE ObserveAll(_, _)
ObserveAll(h, obs) ==
    IF obs = <<>> THEN h
    ELSE ObserveAll(APICallEpilog(h, Head(obs).endpoint, Head(obs).responseCode), Tail(obs))

\* ---------------------------------------------------------- configuration
\* What LoadConfiguration reads: whether the file opens, whether it is
\* YAML, whether its values have the types of Configuration, its
\* listen_address key, the listen.address override (environment
\* SKELETON_LISTEN_ADDRESS), and its ginjwt_auth entries.
ConfigInputs ==
    [readable : BOOLEAN, wellFormed : BOOLEAN, wellTyped : BOOLEAN, fileAddr : {"", ":8000"},
     envAddr : {"", ":8000"}, jwt : {"none", "good", "bad"}]

\* envVarOverrides without its sanity check
envVarOverridesNoCheck(in, cfg) ==
    [cfg |-> IF in.envAddr # "" THEN [cfg EXCEPT !.ListenAddress = in.envAddr] ELSE cfg,
     err |-> "nil"]

\* envVarOverrides(v, cfg)
envVarOverrides(in, cfg) ==
    LET c1 == IF in.envAddr # "" THEN [cfg EXCEPT !.ListenAddress = in.envAddr] ELSE cfg
    IN  IF c1.ListenAddress = ""
        THEN [cfg |-> c1, err |-> "no listen address set"]
        ELSE [cfg |-> c1, err |-> "nil"]

NoConfiguration == [ListenAddress |-> "", JWTAuth |-> "none"]

\* errors.Wrap(err, message)
Wrap(err, message) == message \o ": " \o err

\* LoadConfiguration(cfgFile)
LoadConfiguration(in) ==
    IF ~in.readable THEN [cfg |-> NoConfiguration, err |-> "opening config file"]
    ELSE IF ~in.wellFormed THEN [cfg |-> NoConfiguration, err |-> "reading config"]
    ELSE IF ~in.wellTyped THEN [cfg |-> NoConfiguration, err |-> "unmarshaling config"]
    ELSE LET o == envVarOverrides(in, [ListenAddress |-> in.fileAddr, JWTAuth |-> in.jwt])
         IN  IF o.err # "nil"
             THEN [cfg |-> NoConfiguration, err |-> Wrap(o.err, "configuring environment orverrides")]
             ELSE [cfg |-> o.cfg, err |-> "nil"]

\* ------------------------------------------------------------------ state
VARIABLES
    exit,          \* "none" while the process runs, else how it ended
    mainPC,        \* where serverCmd.Run is
    cfg,           \* the loaded Configuration
    notify,        \* signal.Notify(termChan, SIGINT, SIGTERM) has been called
    termChan,      \* signals buffered in App.term (capacity 1)
    signals,       \* SIGINT/SIGTERM delivered to the process so far
    appCtxDone,    \* the App's context has been cancelled (appCancel)
    authMiddleWare,\* the package variable of routes: "nil" or "set"
    lsn,           \* the listener goroutine: none, starting, serving, ended
    lsnErr,        \* what srv.ListenAndServe returned
    inShutdown,    \* srv.Shutdown has been called
    shutdownCalls, \* number of calls of srv.Shutdown
    shutdownErr,   \* what srv.Shutdown returned: none (not yet), nil, deadline
    clock,         \* ticks since the shutdown context was created
    inflight,      \* requests accepted and not yet answered
    accepted,      \* requests accepted so far
    served,        \* requests answered so far
    fnCalls,       \* invocations of each API handler so far
    last,          \* <<>> or <<the last request answered and its outcome>>
    hist,          \* apiLatencySeconds: sample count per <<endpoint, response_code>>
    probe,         \* <<>> or <<the last call a test made of a package function>>
    lifecycle      \* the lifecycle states entered, in order

vars == <<exit, mainPC, cfg, notify, termChan, signals, appCtxDone, authMiddleWare,
          lsn, lsnErr, inShutdown, shutdownCalls, shutdownErr, clock, inflight,
          accepted, served, fnCalls, last, hist, probe, lifecycle>>

mainVars == <<mainPC, cfg, notify, appCtxDone, authMiddleWare, shutdownCalls, shutdownErr, lifecycle>>
lsnVars  == <<lsn, lsnErr>>
reqVars  == <<inflight, accepted, served, fnCalls, last, hist>>
sigVars  == <<termChan, signals>>

Alive == exit = "none"

Init ==
    /\ exit = "none"
    /\ mainPC = "LoadConfiguration"
    /\ cfg = NoConfiguration
    /\ notify = FALSE
    /\ termChan = 0
    /\ signals = 0
    /\ appCtxDone = FALSE
    /\ authMiddleWare = "nil"
    /\ lsn = "none"
    /\ lsnErr = "none"
    /\ inShutdown = FALSE
    /\ shutdownCalls = 0
    /\ shutdownErr = "none"
    /\ clock = 0
    /\ inflight = 0
    /\ accepted = 0
    /\ served = 0
    /\ fnCalls = [h \in ApiHandlers |-> 0]
    /\ last = <<>>
    /\ hist = NoSamples
    /\ probe = <<>>
    /\ lifecycle = <<"Running">>

\* -------------------------------------------------- serverCmd.Run (main)
\* cfg, err := app.LoadConfiguration(rootCmd.CfgFile); log.Fatalf on error
RunLoadConfiguration ==
    /\ Alive /\ mainPC = "LoadConfiguration"
    /\ \E in \in ConfigInputs :
         LET r == LoadConfiguration(in)
         IN  IF r.err # "nil"
             THEN /\ exit' = "fatal: loading configuration"
                  /\ UNCHANGED <<mainPC, cfg>>
             ELSE /\ cfg' = r.cfg
                  /\ mainPC' = "NewApp"
                  /\ UNCHANGED exit
    /\ UNCHANGED probe
    /\ UNCHANGED <<notify, appCtxDone, authMiddleWare, shutdownCalls, shutdownErr, lifecycle,
                   lsnVars, reqVars, sigVars, inShutdown, clock>>

\* capacity of termChan: make(chan os.Signal, 1)
termChanCap == 1

\* NewApp without the call of signal.Notify
NewAppNoNotify ==
    /\ Alive /\ mainPC = "NewApp"
    /\ mainPC' = "ComposeHTTPServer"
    /\ UNCHANGED probe
    /\ UNCHANGED <<exit, cfg, notify, appCtxDone, authMiddleWare, shutdownCalls, shutdownErr,
                   lifecycle, lsnVars, reqVars, sigVars, inShutdown, clock>>

\* app.NewApp(ctx, cfg, logger): makes termChan and registers it for
\* SIGINT and SIGTERM
NewApp ==
    /\ Alive /\ mainPC = "NewApp"
    /\ notify' = TRUE
    /\ mainPC' = "ComposeHTTPServer"
    /\ UNCHANGED probe
    /\ UNCHANGED <<exit, cfg, appCtxDone, authMiddleWare, shutdownCalls, shutdownErr, lifecycle,
                   lsnVars, reqVars, sigVars, inShutdown, clock>>

\* the error of NewMultiTokenMiddlewareFromConfigs dropped
AuthInitErrorIgnored(jwt) == FALSE

\* ginjwt.NewMultiTokenMiddlewareFromConfigs returns an error
AuthInitFails(jwt) == jwt = "bad"

\* the package variable after the first statement of ComposeHTTPServer: it
\* is assigned only when entries are configured
NewAuthMiddleWare(old, jwt) == IF jwt # "none" THEN "set" ELSE old

\* routes.ComposeHTTPServer(app): builds the JWT middleware when entries
\* are configured (Fatal when that fails), then the gin engine
ComposeHTTPServer ==
    /\ Alive /\ mainPC = "ComposeHTTPServer"
    /\ IF AuthInitFails(cfg.JWTAuth)
       THEN /\ exit' = "fatal: failed to initialize auth middleware"
            /\ UNCHANGED <<mainPC, authMiddleWare>>
       ELSE /\ authMiddleWare' = NewAuthMiddleWare(authMiddleWare, cfg.JWTAuth)
            /\ mainPC' = "GoListen"
            /\ UNCHANGED exit
    /\ UNCHANGED probe
    /\ UNCHANGED <<cfg, notify, appCtxDone, shutdownCalls, shutdownErr, lifecycle,
                   lsnVars, reqVars, sigVars, inShutdown, clock>>

\* go func() { srv.ListenAndServe() ... }()
GoListen ==
    /\ Alive /\ mainPC = "GoListen"
    /\ lsn' = "starting"
    /\ mainPC' = "WaitForSignal"
    /\ UNCHANGED probe
    /\ UNCHANGED <<exit, cfg, notify, appCtxDone, authMiddleWare, shutdownCalls, shutdownErr,
                   lifecycle, lsnErr, reqVars, sigVars, inShutdown, clock>>

\* WaitForSignal as a receive that does not block (select with a default)
WaitForSignalNoBlock ==
    /\ Alive /\ mainPC = "WaitForSignal"
    /\ termChan' = IF termChan > 0 THEN termChan - 1 ELSE termChan
    /\ mainPC' = "Signaled"
    /\ lifecycle' = Append(lifecycle, "TerminationRequested")
    /\ UNCHANGED probe
    /\ UNCHANGED <<exit, cfg, notify, appCtxDone, authMiddleWare, shutdownCalls, shutdownErr,
                   lsnVars, reqVars, signals, inShutdown, clock>>

\* app.WaitForSignal(): <-a.term
WaitForSignal ==
    /\ Alive /\ mainPC = "WaitForSignal"
    /\ termChan > 0
    /\ termChan' = termChan - 1
    /\ mainPC' = "Signaled"
    /\ lifecycle' = Append(lifecycle, "TerminationRequested")
    /\ UNCHANGED probe
    /\ UNCHANGED <<exit, cfg, notify, appCtxDone, authMiddleWare, shutdownCalls, shutdownErr,
                   lsnVars, reqVars, signals, inShutdown, clock>>

\* (a *App) ContextDone(): a.ctx.Err() != nil, a.ctx being the context
\* made by context.WithCancel(c.Context()) that appCancel cancels
ContextDone == appCtxDone

\* Run going on to Shutdown without calling appCancel
AppCancelMissing ==
    /\ Alive /\ mainPC = "Signaled"
    /\ mainPC' = "CallShutdown"
    /\ UNCHANGED probe
    /\ UNCHANGED <<exit, cfg, notify, appCtxDone, authMiddleWare, shutdownCalls, shutdownErr,
                   lifecycle, lsnVars, reqVars, sigVars, inShutdown, clock>>

\* logger.Info("signaled to terminate"); appCancel()
AppCancel ==
    /\ Alive /\ mainPC = "Signaled"
    /\ appCtxDone' = TRUE
    /\ mainPC' = "CallShutdown"
    /\ UNCHANGED probe
    /\ UNCHANGED <<exit, cfg, notify, authMiddleWare, shutdownCalls, shutdownErr, lifecycle,
                   lsnVars, reqVars, sigVars, inShutdown, clock>>

\* the command context passed to srv.Shutdown as it is, without a timeout
ShutdownCtxNeverDone(t) == FALSE

\* the shutdown context derived from the App's context instead: done as
\* soon as appCancel has run
ShutdownCtxFromApp(t) == appCtxDone \/ t >= shutdownTimeout

\* ctx, cancel := context.WithTimeout(c.Context(), shutdownTimeout):
\* the context passed to srv.Shutdown is done t ticks after its creation
ShutdownCtxDone(t) == t >= shutdownTimeout

\* srv.Shutdown(ctx) is entered: the server is marked as shutting down and
\* its listeners are closed
ShutdownBegin ==
    /\ Alive /\ mainPC = "CallShutdown"
    /\ clock' = 0
    /\ inShutdown' = TRUE
    /\ shutdownCalls' = shutdownCalls + 1
    /\ mainPC' = "InShutdown"
    /\ lifecycle' = Append(lifecycle, "ShuttingDown")
    /\ UNCHANGED probe
    /\ UNCHANGED <<exit, cfg, notify, appCtxDone, authMiddleWare, shutdownErr,
                   lsnVars, reqVars, sigVars>>

\* the shutdown error logged with logger.Error instead of logger.Fatal
ShutdownNeverFatal(err) == FALSE

\* if err := srv.Shutdown(ctx); err != nil { logger.Fatal(...) }
ShutdownFatal(err) == err # "nil"

\* srv.Shutdown returns nil: no connection is active any more
ShutdownReturnNil ==
    /\ Alive /\ mainPC = "InShutdown"
    /\ inflight = 0
    /\ shutdownErr' = "nil"
    /\ lifecycle' = Append(lifecycle, "Stopped")
    /\ IF ShutdownFatal("nil")
       THEN exit' = "fatal: server shutdown error" /\ UNCHANGED mainPC
       ELSE mainPC' = "OtelShutdown" /\ UNCHANGED exit
    /\ UNCHANGED probe
    /\ UNCHANGED <<cfg, notify, appCtxDone, authMiddleWare, shutdownCalls,
                   lsnVars, reqVars, sigVars, inShutdown, clock>>

\* srv.Shutdown returns ctx.Err(): the context is done while connections
\* are still active
ShutdownReturnDeadline ==
    /\ Alive /\ mainPC = "InShutdown"
    /\ ShutdownCtxDone(clock)
    /\ shutdownErr' = "deadline"
    /\ lifecycle' = Append(lifecycle, "ShutdownTimedOut")
    /\ IF ShutdownFatal("deadline")
       THEN exit' = "fatal: server shutdown error" /\ UNCHANGED mainPC
       ELSE mainPC' = "OtelShutdown" /\ UNCHANGED exit
    /\ UNCHANGED probe
    /\ UNCHANGED <<cfg, notify, appCtxDone, authMiddleWare, shutdownCalls,
                   lsnVars, reqVars, sigVars, inShutdown, clock>>

\* otelShutdown(ctx); logger.Info("OK, done.")
Finish ==
    /\ Alive /\ mainPC = "OtelShutdown"
    /\ mainPC' = "Done"
    /\ UNCHANGED probe
    /\ UNCHANGED <<exit, cfg, notify, appCtxDone, authMiddleWare, shutdownCalls, shutdownErr,
                   lifecycle, lsnVars, reqVars, sigVars, inShutdown, clock>>

\* Run returns (deferred cancel and logger.Sync run) and the process exits
Return ==
    /\ Alive /\ mainPC = "Done"
    /\ exit' = "returned"
    /\ UNCHANGED probe
    /\ UNCHANGED <<mainVars, lsnVars, reqVars, sigVars, inShutdown, clock>>

\* ------------------------------------------------- the listener goroutine
\* if err := srv.ListenAndServe(); err != nil && errors.Is(err, http.ErrServerClosed)
\*     { logger.Fatal("error serving API", ...) }
ListenFatal(err) == err # "nil" /\ err = "ErrServerClosed"

\* what the goroutine does with the error ListenAndServe returned
ListenerReturned(err) ==
    /\ IF ListenFatal(err)
       THEN exit' = "fatal: error serving API" /\ UNCHANGED lsn
       ELSE lsn' = "ended" /\ UNCHANGED exit
    /\ lsnErr' = err
    /\ UNCHANGED probe
    /\ UNCHANGED <<mainVars, reqVars, sigVars, inShutdown, clock>>

\* ListenAndServe binds the address and starts accepting
ListenOK ==
    /\ Alive /\ lsn = "starting" /\ ~inShutdown
    /\ lsn' = "serving"
    /\ UNCHANGED probe
    /\ UNCHANGED <<exit, lsnErr, mainVars, reqVars, sigVars, inShutdown, clock>>

\* ListenAndServe fails to bind the address and returns the error
ListenBindError ==
    /\ Alive /\ lsn = "starting" /\ ~inShutdown
    /\ ListenerReturned("bind error")

\* Serve returns an Accept error that is not temporary
ListenAcceptError ==
    /\ Alive /\ lsn = "serving" /\ ~inShutdown
    /\ ListenerReturned("accept error")

\* ListenAndServe returns http.ErrServerClosed once Shutdown has been called
ListenServerClosed ==
    /\ Alive /\ lsn \in {"starting", "serving"} /\ inShutdown
    /\ ListenerReturned("ErrServerClosed")

\* ------------------------------------------------------------- requests
\* the listener accepts a request: a connection becomes active
Accept ==
    /\ Alive /\ lsn = "serving" /\ ~inShutdown
    /\ inflight < MaxInFlight /\ accepted < MaxRequests
    /\ inflight' = inflight + 1
    /\ accepted' = accepted + 1
    /\ UNCHANGED probe
    /\ UNCHANGED <<exit, mainVars, lsnVars, sigVars, inShutdown, clock, served, fnCalls, last, hist>>

CountCalls(calls, h) == Cardinality({i \in 1..Len(calls) : calls[i].fn = h})

\* Serve with the map m of wrapAPICall made once, outside the handler: the
\* body is decoded into the map the request before left behind
ServeSharedMap ==
    /\ Alive /\ inflight > 0
    /\ \E req \in Requests :
         LET r0   == ServeHTTP(authMiddleWare, req)
             kept == IF last # <<>> /\ last[1].res.calls # <<>>
                     THEN last[1].res.calls[1].arg ELSE MakeMap
             d    == DecodeJSON(req.body, kept)
             h    == CallHandler(Route(req.method, req.path), d.m)
             r    == IF r0.calls # <<>> /\ d.err = "nil" /\ h.err = "nil"
                     THEN [r0 EXCEPT !.ctx.body = <<EncodeJSON(h.obj)>>,
                                     !.calls = <<[fn |-> r0.calls[1].fn, arg |-> d.m]>>]
                     ELSE r0
         IN  /\ last' = <<[req |-> req, res |-> r]>>
             /\ fnCalls' = [h2 \in ApiHandlers |-> fnCalls[h2] + CountCalls(r.calls, h2)]
             /\ hist' = ObserveAll(hist, r.obs)
    /\ inflight' = inflight - 1
    /\ served' = served + 1
    /\ UNCHANGED probe
    /\ UNCHANGED <<exit, mainVars, lsnVars, sigVars, inShutdown, clock, accepted>>

\* engine.ServeHTTP for one request: the whole handler chain runs and the
\* response goes out
Serve ==
    /\ Alive /\ inflight > 0
    /\ \E req \in Requests :
         LET r == ServeHTTP(authMiddleWare, req)
         IN  /\ last' = <<[req |-> req, res |-> r]>>
             /\ fnCalls' = [h \in ApiHandlers |-> fnCalls[h] + CountCalls(r.calls, h)]
             /\ hist' = ObserveAll(hist, r.obs)
    /\ inflight' = inflight - 1
    /\ served' = served + 1
    /\ UNCHANGED probe
    /\ UNCHANGED <<exit, mainVars, lsnVars, sigVars, inShutdown, clock, accepted>>

\* ---------------------------------------------------------------- signals
\* a channel without buffer: Notify does not block, so a signal is dropped
\* unless WaitForSignal is receiving at that moment
SignalUnbuffered ==
    /\ Alive /\ signals < MaxSignals
    /\ signals' = signals + 1
    /\ IF ~notify
       THEN exit' = "killed: signal" /\ UNCHANGED termChan
       ELSE /\ termChan' = IF mainPC = "WaitForSignal" /\ termChan < termChanCap
                             THEN termChan + 1 ELSE termChan
            /\ UNCHANGED exit
    /\ UNCHANGED probe
    /\ UNCHANGED <<mainVars, lsnVars, reqVars, inShutdown, clock>>

\* the handlers are back to the default after the first signal: a further
\* one ends the process
SignalOnceOnly ==
    /\ Alive /\ signals < MaxSignals
    /\ signals' = signals + 1
    /\ IF ~notify \/ signals >= 1
       THEN exit' = "killed: signal" /\ UNCHANGED termChan
       ELSE /\ termChan' = IF termChan < termChanCap THEN termChan + 1 ELSE termChan
            /\ UNCHANGED exit
    /\ UNCHANGED probe
    /\ UNCHANGED <<mainVars, lsnVars, reqVars, inShutdown, clock>>

\* SIGINT or SIGTERM is delivered: before signal.Notify the default action
\* ends the process; after it the signal goes into termChan unless the
\* buffer is full
Signal ==
    /\ Alive /\ signals < MaxSignals
    /\ signals' = signals + 1
    /\ IF ~notify
       THEN exit' = "killed: signal" /\ UNCHANGED termChan
       ELSE /\ termChan' = IF termChan < termChanCap THEN termChan + 1 ELSE termChan
            /\ UNCHANGED exit
    /\ UNCHANGED probe
    /\ UNCHANGED <<mainVars, lsnVars, reqVars, inShutdown, clock>>

\* ------------------------------------------------------------------- time
\* one tick passes while srv.Shutdown waits for active connections; it
\* returns as soon as its context is done or no connection is active
Tick ==
    /\ Alive /\ mainPC = "InShutdown"
    /\ inflight > 0
    /\ ~ShutdownCtxDone(clock)
    /\ clock < MaxClock
    /\ clock' = clock + 1
    /\ UNCHANGED probe
    /\ UNCHANGED <<exit, mainVars, lsnVars, reqVars, sigVars, inShutdown>>

Next ==
    \/ RunLoadConfiguration
    \/ NewApp
    \/ ComposeHTTPServer
    \/ GoListen
    \/ WaitForSignal
    \/ AppCancel
    \/ ShutdownBegin
    \/ ShutdownReturnNil
    \/ ShutdownReturnDeadline
    \/ Finish
    \/ Return
    \/ ListenOK
    \/ ListenBindError
    \/ ListenAcceptError
    \/ ListenServerClosed
    \/ Accept
    \/ Serve
    \/ Signal
    \/ Tick

Spec == Init /\ [][Next]_vars

\* The goroutine of serverCmd.Run: each of its steps is taken once it can be
MainStep ==
    \/ RunLoadConfiguration
    \/ NewApp
    \/ ComposeHTTPServer
    \/ GoListen
    \/ WaitForSignal
    \/ AppCancel
    \/ ShutdownBegin
    \/ ShutdownReturnNil
    \/ ShutdownReturnDeadline
    \/ Finish
    \/ Return

\* Fair scheduling: the Go scheduler runs every runnable goroutine, so Run
\* takes its next step, srv.ListenAndServe returns once Shutdown has closed
\* the listener, and the timer of the shutdown context runs on.  Nothing
\* is asked of the environment or of the handlers: a signal, a connection
\* or the end of a request in flight may never come.
FairSpec ==
    /\ Init /\ [][Next]_vars
    /\ WF_vars(MainStep)
    /\ WF_vars(ListenServerClosed)
    /\ WF_vars(Tick)

\* ------------------------------------------------ the packages under test
\* A test calls the exported functions of app and routes itself, without
\* serverCmd.Run: LoadConfiguration on a file and an environment,
\* wrapAPICall on a handler of its own, ComposeHTTPServer any number of
\* times in the one process, and the engine of the server composed last.
\* probe holds the last call with its arguments and what it returned.
\* LoadConfiguration and wrapAPICall change nothing but probe, so their
\* calls are taken before the first server is composed.
ProbeConfigInputs ==
    [readable : BOOLEAN, wellFormed : BOOLEAN, wellTyped : BOOLEAN, fileAddr : {"", ":8000", ":9000"},
     envAddr : {"", ":8000", ":9000"}, jwt : {"none", "good", "bad"}]

ProbeHandlers == ApiHandlers \cup {"stubPartial"}

\* the test holds the server it composed last
ProbeHasServer == probe # <<>> /\ probe[1].call \in {"ComposeHTTPServer", "ServeHTTP"}

CallLoadConfiguration ==
    /\ Alive /\ ~ProbeHasServer
    /\ \E in \in ProbeConfigInputs :
         probe' = <<[call |-> "LoadConfiguration", in |-> in, out |-> LoadConfiguration(in)]>>
    /\ UNCHANGED <<exit, mainVars, lsnVars, reqVars, sigVars, inShutdown, clock>>

\* the option lists a test passes to NewApp: up to MaxOptions options, each
\* NewOption(key, value)
MaxOptions == 2

OptionLists ==
    UNION {[1..n -> {"a", "b"} \X {"1", "2"}] : n \in 0..MaxOptions}

\* &App{Log, Cfg, ctx, term}: opts is left at its zero value, the nil map
NewAppStruct == [opts |-> NilMap, panicked |-> FALSE]

\* NewOption(key, opt) applied to an App: a.opts[key] = opt, which panics
\* ("assignment to entry in nil map") when a.opts is nil
NewOption(a, key, opt) ==
    IF a.panicked THEN a
    ELSE IF a.opts.isNil THEN [a EXCEPT !.panicked = TRUE]
    ELSE [a EXCEPT !.opts = MapOf(MapSet(a.opts.kv, key, opt))]

\* for _, opt := range opts { opt(app) }
RECURSIVE ApplyOptions(_, _)
ApplyOptions(a, opts) ==
    IF opts = <<>> THEN a
    ELSE ApplyOptions(NewOption(a, Head(opts)[1], Head(opts)[2]), Tail(opts))

\* NewApp(ctx, cfg, log, opts...) called with options: signal.Notify, the
\* struct, then the options; a panic ends the process
CallNewApp ==
    /\ Alive /\ ~ProbeHasServer
    /\ \E opts \in OptionLists :
         LET a == ApplyOptions(NewAppStruct, opts)
         IN  /\ probe' = <<[call |-> "NewApp", opts |-> opts, out |-> a]>>
             /\ exit' = IF a.panicked THEN "panic: assignment to entry in nil map" ELSE exit
    /\ notify' = TRUE
    /\ UNCHANGED <<mainPC, cfg, appCtxDone, authMiddleWare, shutdownCalls, shutdownErr, lifecycle,
                   lsnVars, reqVars, sigVars, inShutdown, clock>>

CallWrapAPICall ==
    /\ Alive /\ ~ProbeHasServer
    /\ \E fn \in ProbeHandlers, body \in Bodies :
         probe' = <<[call |-> "wrapAPICall", fn |-> fn, body |-> body,
                     out |-> wrapAPICall(fn, NewContext, body)]>>
    /\ UNCHANGED <<exit, mainVars, lsnVars, reqVars, sigVars, inShutdown, clock>>

CallComposeHTTPServer ==
    /\ Alive
    /\ \E jwt \in {"none", "good"} :
         /\ cfg' = [ListenAddress |-> ":8000", JWTAuth |-> jwt]
         /\ authMiddleWare' = NewAuthMiddleWare(authMiddleWare, jwt)
         /\ probe' = <<[call |-> "ComposeHTTPServer", cfg |-> cfg']>>
    /\ UNCHANGED <<exit, mainPC, notify, appCtxDone, shutdownCalls, shutdownErr, lifecycle,
                   lsnVars, reqVars, sigVars, inShutdown, clock>>

\* srv.Handler.ServeHTTP(recorder, req) on that server
CallServeHTTP ==
    /\ Alive /\ ProbeHasServer
    /\ served < MaxRequests
    /\ \E req \in Requests :
         LET r == ServeHTTP(authMiddleWare, req)
         IN  /\ probe' = <<[call |-> "ServeHTTP", cfg |-> probe[1].cfg, req |-> req, out |-> r]>>
             /\ last' = <<[req |-> req, res |-> r]>>
             /\ fnCalls' = [h \in ApiHandlers |-> fnCalls[h] + CountCalls(r.calls, h)]
             /\ hist' = ObserveAll(hist, r.obs)
    /\ served' = served + 1
    /\ UNCHANGED <<exit, mainVars, lsnVars, sigVars, inShutdown, clock, inflight, accepted>>

HarnessNext ==
    \/ CallLoadConfiguration
    \/ CallNewApp
    \/ CallWrapAPICall
    \/ CallComposeHTTPServer
    \/ CallServeHTTP

SpecHarness == Init /\ [][HarnessNext]_vars

\* =================================================================== claims
Answered == last # <<>>
LastReq == last[1].req
LastRes == last[1].res

\* the last request answered went through a handler built by wrapAPICall
LastWrapped ==
    /\ Answered
    /\ Route(LastReq.method, LastReq.path) \in ApiHandlers
    /\ (authMiddleWare = "nil" \/ LastReq.tokenOK)

LastDecodeFailed == LastWrapped /\ LastReq.body \in BadBodies
LastDecodedObject == LastWrapped /\ LastReq.body \in ObjectBodies

\* C1: a request to a wrapAPICall endpoint whose body is malformed or not a
\* JSON object never invokes the domain handler: answering it leaves every
\* handler's invocation count unchanged.
C1_NoHandlerCallOnDecodeFailure ==
    [][(served' # served /\ LastDecodeFailed') => fnCalls' = fnCalls]_vars

\* C2: every request handled by wrapAPICall gets exactly one JSON response:
\* one status and one body, on every branch.
C2_ExactlyOneResponse ==
    LastWrapped => (LastRes.ctx.written /\ Len(LastRes.ctx.body) = 1)

\* C3: a request whose body fails to decode is answered 400 with a body that
\* is one JSON object whose error field is the decode error's message.
C3_DecodeFailureIs400WithError ==
    LastDecodeFailed =>
        /\ LastRes.ctx.sent = StatusBadRequest
        /\ DecodeJSON(LastReq.body, MakeMap).err # ""
        /\ LastRes.ctx.body = <<ObjText(<<Pair("error", DecodeJSON(LastReq.body, MakeMap).err)>>)>>

\* C4: when a termination signal arrives while requests are in flight, the
\* process is not terminated before the shutdown bound with their
\* responses lost: no interleaving of the listener goroutine and the main
\* shutdown sequence ends the process while a request is still in flight
\* and the bound has not elapsed.
C4_NoEarlyTermination ==
    ~(exit = "fatal: error serving API" /\ inflight > 0 /\ ~ShutdownCtxDone(clock))

\* C5: a ListenAndServe failure other than graceful close is logged as
\* fatal and ends the process; it is never swallowed.
C5_ListenerFailureIsFatal ==
    lsnErr \in {"bind error", "accept error"} => exit = "fatal: error serving API"

\* C6 as stated: when the shutdown bound elapses first, the failure is not
\* fatal: the process is not aborted at the point of the failure.
C6_TimeoutNotFatal ==
    shutdownErr = "deadline" => exit # "fatal: server shutdown error"

\* C6 as amended: when the shutdown bound elapses first, the timeout is
\* reported by a fatal log entry and the process ends there: telemetry
\* shutdown and the final log are not reached.
C6_TimeoutIsFatal ==
    shutdownErr = "deadline" =>
        /\ exit = "fatal: server shutdown error"
        /\ mainPC \notin {"OtelShutdown", "Done"}

C6_Witness ==
    /\ shutdownErr = "deadline" /\ clock = shutdownTimeout /\ inflight > 0
    /\ exit = "fatal: server shutdown error"

IsPrefix(s, t) == Len(s) <= Len(t) /\ \A i \in 1..Len(s) : s[i] = t[i]

LifecycleStopped == <<"Running", "TerminationRequested", "ShuttingDown", "Stopped">>
LifecycleTimedOut == <<"Running", "TerminationRequested", "ShuttingDown", "ShutdownTimedOut">>

\* C7: the lifecycle states are entered only in the order Running,
\* TerminationRequested, ShuttingDown, then Stopped or ShutdownTimedOut,
\* none twice and none skipped, and TerminationRequested is entered only
\* once a SIGINT/SIGTERM has been delivered.
C7_LifecycleOrder ==
    /\ IsPrefix(lifecycle, LifecycleStopped) \/ IsPrefix(lifecycle, LifecycleTimedOut)
    /\ Len(lifecycle) >= 2 => signals >= 1
    /\ mainPC \in {"LoadConfiguration", "NewApp", "ComposeHTTPServer", "GoListen", "WaitForSignal"}
          => lifecycle = <<"Running">>

C7_Witness == lifecycle = LifecycleStopped /\ signals >= 2 /\ mainPC = "Done"

\* C8: signal registration precedes the listener and every accepted
\* request, srv.Shutdown is called only after WaitForSignal has returned,
\* and no request is accepted once Shutdown has begun.
C8_Ordering ==
    /\ [](/\ lsn # "none" => notify
          /\ accepted > 0 => notify
          /\ shutdownCalls > 0 => (Len(lifecycle) >= 2 /\ lifecycle[2] = "TerminationRequested"))
    /\ [][inShutdown => accepted' = accepted]_vars

C8_Witness == inShutdown /\ notify /\ accepted > 0 /\ inflight > 0 /\ lsn = "serving"

\* C9: srv.Shutdown never blocks longer than the bound; with nothing in
\* flight it returns nil without time passing; it returns the timeout
\* failure only when the bound has elapsed, the process then ends with the
\* held request unanswered, and Shutdown is called at most once.
C9_ShutdownBounded ==
    /\ [](/\ shutdownCalls <= 1
          /\ mainPC = "InShutdown" => clock <= shutdownTimeout
          /\ shutdownErr = "deadline" => (clock = shutdownTimeout /\ ~Alive)
          /\ shutdownErr = "nil" => inflight = 0)
    /\ [][(mainPC = "InShutdown" /\ inflight = 0 /\ clock < shutdownTimeout)
            => (clock' = clock /\ shutdownErr' # "deadline")]_vars
    /\ [][(mainPC = "InShutdown" /\ inflight > 0) => shutdownErr' # "nil"]_vars
    /\ [][shutdownErr = "deadline" => UNCHANGED <<inflight, served, shutdownCalls>>]_vars

C9_Witness ==
    /\ shutdownErr = "deadline" /\ clock = shutdownTimeout /\ inflight > 0
    /\ shutdownCalls = 1 /\ served > 0

\* C10: a request whose body decodes to a JSON object m invokes fn exactly
\* once, with m, and when fn returns (r, nil) the response is 200 with the
\* JSON encoding of r as its body.
C10_DecodedObjectHandled ==
    LastDecodedObject =>
        LET fn == Route(LastReq.method, LastReq.path)
            m  == DecodeJSON(LastReq.body, MakeMap).m
            r  == CallHandler(fn, m)
        IN  /\ LastRes.calls = <<[fn |-> fn, arg |-> m]>>
            /\ r.err = "nil" =>
                 /\ LastRes.ctx.sent = StatusOK
                 /\ LastRes.ctx.body = <<EncodeJSON(r.obj)>>

C10_Witness ==
    /\ LastDecodedObject
    /\ LastReq.path = "/api/echo"
    /\ LastReq.body = ObjText(<<Pair("b", "2"), Pair("a", "1"), Pair("a", "3")>>)
    /\ LastRes.calls = <<[fn |-> "apiEcho", arg |-> MapOf(MapSet(MapSet(EmptyKV, "a", "3"), "b", "2"))]>>
    /\ LastRes.ctx.sent = StatusOK
    /\ LastRes.ctx.body = <<ObjText(<<Pair("a", "3"), Pair("b", "2")>>)>>

ProbeIs(call) == probe # <<>> /\ probe[1].call = call

\* C11: when the body decodes and fn returns a non-nil error e, the
\* response is 500 with the one body {"error": e's message}; whatever
\* result fn returned with the error, empty or not, is not in the response.
C11_HandlerErrorIs500 ==
    (ProbeIs("wrapAPICall") /\ DecodeJSON(probe[1].body, MakeMap).err = "nil") =>
        LET r == CallHandler(probe[1].fn, DecodeJSON(probe[1].body, MakeMap).m)
        IN  r.err # "nil" =>
              /\ probe[1].out.ctx.sent = StatusInternalServerError
              /\ probe[1].out.ctx.body = <<ObjText(<<Pair("error", r.err)>>)>>

C11_Witness ==
    /\ ProbeIs("wrapAPICall")
    /\ probe[1].fn = "stubPartial"
    /\ probe[1].body = ObjText(<<Pair("b", "2"), Pair("a", "1"), Pair("a", "3")>>)
    /\ CallHandler("stubPartial", DecodeJSON(probe[1].body, MakeMap).m).obj.kv
         = MapSet(MapSet(EmptyKV, "a", "7"), "b", "2")
    /\ probe[1].out.ctx.sent = StatusInternalServerError
    /\ probe[1].out.ctx.body = <<ObjText(<<Pair("error", "stub failure")>>)>>

\* the document a JSON text denotes, numbers taken exactly: the members
\* with the last duplicate winning, 1.0 and 1 the same number
ExactNumber(tok) == IF tok = "1.0" THEN "1" ELSE tok

RECURSIVE ExactPairs(_, _)
ExactPairs(ps, f) ==
    IF ps = <<>> THEN f
    ELSE ExactPairs(Tail(ps), MapSet(f, Head(ps)[1], ExactNumber(Head(ps)[2])))

\* every request body that is a valid JSON object
ValidObjectBodies == ObjectBodies \cup RangeBodies

LastEcho ==
    LastWrapped /\ LastReq.method = "POST" /\ LastReq.path = "/api/echo"

LastError ==
    LastWrapped /\ LastReq.method = "POST" /\ LastReq.path = "/api/error"

RECURSIVE SumSamples(_, _)
SumSamples(h, labels) ==
    IF labels = {} THEN 0
    ELSE LET l == CHOOSE x \in labels : TRUE
         IN  h[l] + SumSamples(h, labels \ {l})

\* the histogram's sample count for an endpoint, summed over response codes
EndpointSamples(h, endpoint) == SumSamples(h, {l \in DOMAIN h : l[1] = endpoint})

\* C14: every request to /api/echo that completes raises the sample count
\* of endpoint /api/echo (summed over response codes) by exactly one, and
\* nothing else changes it: after N such requests, completed in any order,
\* the count has risen by exactly N.
C14_NoLostObservation ==
    [][EndpointSamples(hist', "/api/echo") =
         EndpointSamples(hist, "/api/echo")
           + (IF served' = served + 1 /\ last'[1].req.path = "/api/echo" THEN 1 ELSE 0)]_vars

C14_Witness ==
    /\ served = 2 /\ inflight = 0
    /\ EndpointSamples(hist, "/api/echo") = 2
    /\ <<"/api/echo", "200">> \in DOMAIN hist /\ hist[<<"/api/echo", "200">>] = 2

\* C15: a server composed from a configuration without JWT entries has the
\* no-op as auth handler on /api/echo and /api/error, whatever calls of
\* ComposeHTTPServer came before in the process: authMiddleWare is nil when
\* the routes are registered, and every request to those routes reaches
\* the dispatcher.
C15_NoJWTMeansNoOp ==
    /\ (ProbeIs("ComposeHTTPServer") /\ probe[1].cfg.JWTAuth = "none") => authMiddleWare = "nil"
    /\ (/\ ProbeIs("ServeHTTP") /\ probe[1].cfg.JWTAuth = "none"
        /\ Route(probe[1].req.method, probe[1].req.path) \in ApiHandlers)
         => /\ Len(probe[1].out.calls) = 1
            /\ probe[1].out.ctx.sent # StatusUnauthorized

StartupFatal ==
    exit \in {"fatal: loading configuration", "fatal: failed to initialize auth middleware"}

\* C16: a failure of LoadConfiguration or of the construction of the JWT
\* middleware ends the process before the API listener is started: Run
\* gets past each step only with what the step had to produce, the
\* listener goroutine exists only with a loaded configuration and a built
\* middleware, a process ended by a startup failure has no listener and
\* has accepted no request, and an ended process takes no further step.
C16_StartupErrorsFatal ==
    /\ [](/\ StartupFatal => (lsn = "none" /\ accepted = 0 /\ served = 0 /\ inflight = 0)
          /\ exit = "fatal: loading configuration" => (mainPC = "LoadConfiguration" /\ cfg = NoConfiguration)
          /\ exit = "fatal: failed to initialize auth middleware" => mainPC = "ComposeHTTPServer"
          /\ mainPC # "LoadConfiguration" => cfg.ListenAddress # ""
          /\ (lsn # "none" \/ accepted > 0) =>
                (cfg.ListenAddress # "" /\ cfg.JWTAuth # "bad"
                 /\ mainPC \notin {"LoadConfiguration", "NewApp", "ComposeHTTPServer"}))
    /\ [][Alive]_vars

C16_Witness ==
    /\ exit = "fatal: failed to initialize auth middleware"
    /\ cfg.JWTAuth = "bad" /\ notify
    /\ lsn = "none" /\ accepted = 0

ProbeIn == probe[1].in
ProbeOut == probe[1].out

\* the config file was opened, read and unmarshalled
FileLoaded(in) == in.readable /\ in.wellFormed /\ in.wellTyped

NoListenAddress == "configuring environment orverrides: no listen address set"

\* C17 as stated: LoadConfiguration returns the error "no listen address
\* set" and no Configuration exactly when neither the config file nor the
\* environment supplies a non-empty listen address, and a Configuration it
\* returns has a non-empty ListenAddress.
C17_NoAddressIffError ==
    ProbeIs("LoadConfiguration") =>
        /\ (ProbeOut.err = NoListenAddress /\ ProbeOut.cfg = NoConfiguration)
             <=> (~(FileLoaded(ProbeIn) /\ ProbeIn.fileAddr # "") /\ ProbeIn.envAddr = "")
        /\ ProbeOut.err = "nil" => ProbeOut.cfg.ListenAddress # ""

\* C17 as amended: when the config file is opened, read and unmarshalled,
\* the error "no listen address set" and no Configuration are returned
\* exactly when neither file nor environment supplies a non-empty listen
\* address; when it is not, the file's error and no Configuration are
\* returned whatever the environment supplies; a Configuration returned
\* has a non-empty ListenAddress, the environment's when it supplies one.
C17_NoAddressError ==
    ProbeIs("LoadConfiguration") =>
        /\ FileLoaded(ProbeIn) =>
             ((ProbeOut.err = NoListenAddress /\ ProbeOut.cfg = NoConfiguration)
                <=> (ProbeIn.fileAddr = "" /\ ProbeIn.envAddr = ""))
        /\ ~FileLoaded(ProbeIn) =>
             /\ ProbeOut.err \in {"opening config file", "reading config", "unmarshaling config"}
             /\ ProbeOut.cfg = NoConfiguration
        /\ ProbeOut.err # "nil" => ProbeOut.cfg = NoConfiguration
        /\ ProbeOut.err = "nil" =>
             /\ ProbeOut.cfg.ListenAddress # ""
             /\ ProbeOut.cfg.ListenAddress =
                  IF ProbeIn.envAddr # "" THEN ProbeIn.envAddr ELSE ProbeIn.fileAddr

C17_Witness ==
    /\ ProbeIs("LoadConfiguration")
    /\ FileLoaded(ProbeIn) /\ ProbeIn.fileAddr = "" /\ ProbeIn.envAddr = ""
    /\ ProbeOut = [cfg |-> NoConfiguration, err |-> NoListenAddress]

LastUnmatched == Answered /\ Route(LastReq.method, LastReq.path) = "NoRoute"

RouteNotFound == ObjText(<<Pair("message", "invalid request - route not found")>>)

\* C18 as stated: every request whose method and path match no registered
\* route is answered 404 with the body {"message": "invalid request -
\* route not found"}, and no domain handler is invoked.
C18_UnmatchedIs404 ==
    LastUnmatched =>
        /\ LastRes.ctx.sent = StatusNotFound
        /\ LastRes.ctx.body = <<RouteNotFound>>
        /\ LastRes.calls = <<>>

\* C18 as amended: a request that matches no registered route is answered
\* 404 with that body, unless its path is a registered path of its method
\* with a trailing slash added: then it is redirected to the registered
\* path, 301 for GET and 307 for the other methods.  No domain handler is
\* invoked in either case.
C18_UnmatchedIs404OrRedirect ==
    /\ [](LastUnmatched =>
            /\ LastRes.calls = <<>>
            /\ IF TrailingSlashRedirect(LastReq.method, LastReq.path)
               THEN LastRes.ctx.sent =
                      (IF LastReq.method = "GET" THEN StatusMovedPermanently
                       ELSE StatusTemporaryRedirect)
               ELSE /\ LastRes.ctx.sent = StatusNotFound
                    /\ LastRes.ctx.body = <<RouteNotFound>>)
    /\ [][(served' = served + 1 /\ Route(last'[1].req.method, last'[1].req.path) = "NoRoute")
             => fnCalls' = fnCalls]_vars

C18_Witness ==
    /\ LastUnmatched
    /\ LastReq.method = "GET" /\ LastReq.path = "/api/echo"
    /\ LastRes.ctx.sent = StatusNotFound
    /\ LastRes.ctx.body = <<RouteNotFound>>
    /\ served = 2 /\ fnCalls["apiEcho"] = 1

LastLiveness ==
    Answered /\ LastReq.method = "GET" /\ LastReq.path = "/_health/liveness"

HasMember(text, key) ==
    text.kind = "object" /\ \E i \in 1..Len(text.pairs) : text.pairs[i][1] = key

\* C19: GET /_health/liveness is answered 200 with one body that has a
\* time member, whenever it is answered: with or without JWT auth
\* configured, with or without a valid token, and whatever was answered
\* before; no auth handler and no domain handler runs for it.
C19_LivenessAlways200 ==
    LastLiveness =>
        /\ LastRes.ctx.sent = StatusOK
        /\ Len(LastRes.ctx.body) = 1
        /\ HasMember(LastRes.ctx.body[1], "time")
        /\ ~LastRes.ctx.aborted
        /\ LastRes.ctx.errors = <<>>
        /\ LastRes.calls = <<>>

C19_Witness ==
    /\ LastLiveness
    /\ authMiddleWare = "set" /\ ~LastReq.tokenOK
    /\ served = 2 /\ fnCalls["apiError"] = 1
    /\ inShutdown
    /\ LastRes.ctx.sent = StatusOK
    /\ LastRes.ctx.body = <<ObjText(<<Pair("time", "now")>>)>>

\* the last request answered ran the engine's handlers, composeAppLogging
\* first (a trailing-slash redirect runs none)
LastLogged ==
    /\ Answered
    /\ ~(Route(LastReq.method, LastReq.path) = "NoRoute"
         /\ TrailingSlashRedirect(LastReq.method, LastReq.path))

\* C20: every request that passes through composeAppLogging makes exactly
\* one latency observation, its endpoint label the URL path of the request
\* and its response_code label the status sent to the client: the
\* histogram gains one sample under that label pair and nothing else.
C20_OneObservationPerRequest ==
    /\ [](LastLogged =>
            /\ Len(LastRes.obs) = 1
            /\ LastRes.obs[1].endpoint = LastReq.path
            /\ LastRes.ctx.written
            /\ LastRes.obs[1].responseCode = LastRes.ctx.sent)
    /\ [][(served' = served + 1 /\ LastLogged') =>
            hist' = Observe(hist, <<last'[1].req.path, ToString(last'[1].res.ctx.sent)>>)]_vars

C20_Witness ==
    /\ LastLogged
    /\ LastReq.path = "/api/echo" /\ LastReq.body = OtherText("array")
    /\ LastRes.ctx.sent = StatusBadRequest /\ Len(LastRes.ctx.body) = 2
    /\ LastRes.obs = <<[endpoint |-> "/api/echo", responseCode |-> StatusBadRequest]>>
    /\ served = 2
    /\ hist = Observe(Observe(NoSamples, <<"/nope", "404">>), <<"/api/echo", "400">>)

\* C21: every request that composeAppLogging handles gets exactly one log
\* entry, written after the handlers have returned, with the request's
\* path and query, the status code and the start time; the entry is at
\* error severity and carries c.Errors exactly when c.Errors is not empty,
\* and at informational severity otherwise.
C21_OneLogEntry ==
    LastLogged =>
        /\ Len(LastRes.log) = 1
        /\ LastRes.log[1].path = LastReq.path
        /\ LastRes.log[1].query = LastReq.query
        /\ LastRes.log[1].code = LastRes.ctx.status
        /\ LastRes.log[1].code = LastRes.ctx.sent
        /\ LastRes.log[1].start = "now"
        /\ LastRes.log[1].level \in {"error", "info"}
        /\ LastRes.log[1].level = "error" <=> LastRes.ctx.errors # <<>>
        /\ LastRes.log[1].errors = LastRes.ctx.errors

C21_Witness ==
    /\ LastLogged
    /\ LastReq.path = "/api/error" /\ LastReq.body = OtherText("truncated")
    /\ LastRes.log = <<[level |-> "error", path |-> "/api/error", query |-> "",
                        code |-> StatusBadRequest, start |-> "now",
                        errors |-> <<"unexpected EOF">>]>>

\* the response wrapAPICall(fn) gives to a body, written from the body
\* alone: the status sent, the texts written and the call of fn
OwnStatus(fn, body) ==
    LET d == DecodeJSON(body, MakeMap)
    IN  IF d.err # "nil" THEN StatusBadRequest
        ELSE IF CallHandler(fn, d.m).err = "nil" THEN StatusOK
        ELSE StatusInternalServerError

OwnTexts(fn, body) ==
    LET d == DecodeJSON(body, MakeMap)
        r == CallHandler(fn, d.m)
        t == EncodeJSON(IF r.err = "nil" THEN r.obj ELSE ErrorObject(r.err))
    IN  IF d.err # "nil" THEN <<EncodeJSON(ErrorObject(d.err)), t>> ELSE <<t>>

\* C22: the status and body returned for a request to /api/echo or
\* /api/error, and the map its handler is given, are determined by the
\* request's own body, whatever was answered before and whatever is in
\* flight; answering a request, a decode failure included, leaves the
\* process and its listener as they were.
C22_RequestsIndependent ==
    /\ [](LastWrapped =>
            LET fn == Route(LastReq.method, LastReq.path)
            IN  /\ LastRes.ctx.sent = OwnStatus(fn, LastReq.body)
                /\ LastRes.ctx.body = OwnTexts(fn, LastReq.body)
                /\ LastRes.calls = <<[fn |-> fn, arg |-> DecodeJSON(LastReq.body, MakeMap).m]>>)
    /\ [][served' # served => UNCHANGED <<exit, mainPC, lsn, lsnErr, inShutdown, authMiddleWare>>]_vars

C22_Witness ==
    /\ served = 2 /\ lsn = "serving" /\ Alive
    /\ hist = Observe(Observe(NoSamples, <<"/api/echo", "400">>), <<"/api/echo", "200">>)
    /\ fnCalls["apiEcho"] = 2
    /\ LastEcho /\ LastReq.body = ObjText(<<Pair("a", "1")>>)
    /\ LastRes.ctx.sent = StatusOK
    /\ LastRes.ctx.body = <<ObjText(<<Pair("a", "1")>>)>>

\* C23: for any list of options built with NewOption, NewApp returns
\* normally, and the App's option map holds for each key the value of the
\* last option given for it, and nothing else.
C23_OptionsApplied ==
    ProbeIs("NewApp") =>
        /\ ~probe[1].out.panicked
        /\ Alive
        /\ probe[1].out.opts.kv = FoldPairs(probe[1].opts, EmptyKV)

\* Run has not yet come back from app.WaitForSignal()
BeforeSignalReturn ==
    mainPC \in {"LoadConfiguration", "NewApp", "ComposeHTTPServer", "GoListen", "WaitForSignal"}

\* C24: with the command context never cancelled, ContextDone is false in
\* every state before WaitForSignal has returned, true in every state from
\* the call of srv.Shutdown on, and never goes from true back to false.
C24_ContextDoneMonotone ==
    /\ [](/\ BeforeSignalReturn => ~ContextDone
          /\ (shutdownCalls > 0 \/ inShutdown \/ mainPC \in {"CallShutdown", "InShutdown", "OtelShutdown", "Done"})
                => ContextDone
          /\ ContextDone => signals >= 1)
    /\ [][ContextDone => ContextDone']_vars

C24_Witness ==
    /\ ContextDone /\ mainPC = "InShutdown" /\ shutdownCalls = 1
    /\ inflight > 0 /\ Alive

\* C25: a signal delivered after NewApp has returned is not lost and
\* WaitForSignal returns only on a delivered signal.  While Run has not come
\* back from WaitForSignal, a delivered signal stays in the channel, whatever
\* else happens before the call; with a signal in the channel the call does
\* return; and Run is past WaitForSignal only if a signal was delivered.
C25_SignalNotLost ==
    /\ (Alive /\ BeforeSignalReturn /\ signals >= 1) => (notify /\ termChan = termChanCap)
    /\ (Alive /\ mainPC = "WaitForSignal" /\ signals >= 1) => ENABLED WaitForSignal
    /\ ~BeforeSignalReturn => (notify /\ signals >= 1)
    /\ (Alive /\ mainPC = "WaitForSignal" /\ signals = 0) => ~ENABLED WaitForSignal

\* the signal came while the listener was still starting
C25_Witness ==
    /\ mainPC = "Signaled" /\ signals = 1 /\ termChan = 0
    /\ lsn = "starting" /\ Alive

\* the last state of the lifecycle that serverCmd.Run has reached
LifecycleLast == lifecycle[Len(lifecycle)]

\* C26: once WaitForSignal has a delivered signal to return on, the process
\* reaches Stopped or ShutdownTimedOut, whatever the requests in flight do.
C26_EventuallyStopped ==
    (Alive /\ mainPC = "WaitForSignal" /\ termChan > 0)
        ~> (LifecycleLast \in {"Stopped", "ShutdownTimedOut"})

\* the process does end, and the drain never outlasts the bound
C26_EventuallyExits ==
    (Alive /\ mainPC = "WaitForSignal" /\ termChan > 0) ~> ~Alive

\* Run has come back from WaitForSignal: the first signal is consumed
AfterSignalReturn == mainPC \in {"Signaled", "CallShutdown", "InShutdown", "OtelShutdown", "Done"}

\* which steps of Run, of the listener and of the clock can be taken, and
\* whether a connection can be accepted
StepsEnabled ==
    <<ENABLED MainStep, ENABLED ListenOK, ENABLED ListenBindError, ENABLED ListenAcceptError,
      ENABLED ListenServerClosed, ENABLED Accept, ENABLED Tick>>

\* C27: a signal delivered after WaitForSignal has consumed the first one
\* changes nothing but the count of signals and the channel: the process
\* does not end on it, the drain's clock and its connections stay as they
\* are, Shutdown is not called again and Run stays where it is.  Nothing
\* reads the channel again: Run never comes back to WaitForSignal, and the
\* steps that can be taken after the further signal are those that could be
\* taken before it.
C27_FurtherSignalNoEffect ==
    /\ [][(signals' # signals /\ AfterSignalReturn) =>
            /\ termChan' \in {termChan, termChan + 1}
            /\ UNCHANGED <<exit, mainVars, lsnVars, reqVars, inShutdown, clock>>
            /\ StepsEnabled' = StepsEnabled]_vars
    /\ [][AfterSignalReturn => (AfterSignalReturn' /\ termChan' >= termChan)]_vars
    /\ [](AfterSignalReturn => shutdownCalls <= 1)

C27_Witness ==
    /\ mainPC = "InShutdown" /\ signals = 2 /\ termChan = 1
    /\ shutdownCalls = 1 /\ inflight > 0 /\ clock = 1 /\ Alive

\* C28: appCancel leaves the shutdown deadline alone.  Shutdown is called
\* with the App's context already cancelled; its own context is live while
\* less than the bound has passed, so time can run on under a request in
\* flight, and the timeout failure comes only with the whole bound elapsed.
C28_CancelKeepsDeadline ==
    /\ shutdownCalls > 0 => ContextDone
    /\ (mainPC = "InShutdown" /\ clock < shutdownTimeout) => ~ShutdownCtxDone(clock)
    /\ (Alive /\ mainPC = "InShutdown" /\ inflight > 0 /\ clock < shutdownTimeout)
            => (ENABLED Tick /\ ~ENABLED ShutdownReturnDeadline)
    /\ shutdownErr = "deadline" => (ContextDone /\ clock = shutdownTimeout)

C28_Witness ==
    /\ mainPC = "InShutdown" /\ ContextDone /\ Alive
    /\ inflight > 0 /\ clock = shutdownTimeout - 1 /\ shutdownErr = "none"

====
